---- MODULE Spec2Model ----
(***************************************************************************)
(* Model of src/boot/efi/splash.c: the BMP header validator                *)
(* (bmp_parse_header), the pixel converter (bmp_to_blt), the alpha blender *)
(* (pixel_blend) and the compositor (graphics_splash).                     *)
(*                                                                         *)
(* The input file is described by its length, the header fields the code   *)
(* reads from it and a content function giving the byte at every offset    *)
(* behind the headers.  graphics_splash is a step machine whose steps are  *)
(* the calls it makes; the calls into the firmware (LocateProtocol, Blt,   *)
(* graphics_mode) succeed or fail nondeterministically.                    *)
(***************************************************************************)
EXTENDS Integers, Sequences, FiniteSets, TLC

VARIABLES
    bmp,          \* the input: len (UINTN len) and the fields of the file
    beyond,       \* the byte the memory behind the end of the file holds
    background,   \* the background argument: NULL or a pixel
    vendorApple,  \* strcaseeq16(u"Apple", ST->FirmwareVendor)
    Mode,         \* GraphicsOutput->Mode->Info: the two resolutions
    pc,           \* position inside graphics_splash
    err,          \* EFI_STATUS returned (meaningful when pc = "done")
    x_pos, y_pos, \* centering offsets
    in, out,      \* bmp_to_blt cursors: in is relative to pixmap
    x, y,         \* bmp_to_blt loop counters
    blt,          \* the EFI buffer, index -> BLT pixel
    origin,       \* ghost: index -> where the pixel was decoded from
    reads,        \* ghost: file offsets bmp_to_blt has dereferenced
    lookups,      \* ghost: palette indexes bmp_to_blt has used
    surface,      \* what the display shows: "initial", "filled", "splash"
    calls,        \* ghost: the firmware calls made so far, in order
    bdst, bsrc, bout   \* pixel_blend harness: destination, source, result

vars == <<bmp, beyond, background, vendorApple, Mode, pc, err, x_pos, y_pos,
          in, out, x, y, blt, origin, reads, lookups, surface, calls,
          bdst, bsrc, bout>>

(***************************************************************************)
(* Bounds of the model.                                                    *)
(***************************************************************************)
MaxWidth == 9
MaxHeight == 2

(***************************************************************************)
(* Program constants.                                                      *)
(***************************************************************************)
SizeofBmpFile == 14
SizeofBmpDib == 40
SizeofBmpMap == 4
MaxRowBytes == 64 * 1024 * 1024

Max(a, b) == IF a > b THEN a ELSE b

RECURSIVE Pow2(_)
Pow2(n) == IF n = 0 THEN 1 ELSE 2 * Pow2(n - 1)

(***************************************************************************)
(* The content of the file: the byte at offset o, for o inside the file.   *)
(***************************************************************************)
ByteAt(o) == (bmp.seed + bmp.stride * o) % 256

(***************************************************************************)
(* bmp_parse_header.  Returns the status, and on success the offset of the *)
(* color table (map) and of the pixel rows (pixmap).  The model's          *)
(* dimensions keep every product far below the width of UINTN.             *)
(***************************************************************************)
RowSize(depth, width) == ((depth * width + 31) \div 32) * 4

DepthStatus(f) ==
    IF f.depth \in {1, 4, 8, 24}
    THEN (IF f.compression # 0 THEN "EFI_UNSUPPORTED" ELSE "EFI_SUCCESS")
    ELSE IF f.depth \in {16, 32}
    THEN (IF f.compression # 0 /\ f.compression # 3
          THEN "EFI_UNSUPPORTED" ELSE "EFI_SUCCESS")
    ELSE "EFI_UNSUPPORTED"

map_count(f) ==
    IF f.colors_used # 0 THEN f.colors_used
    ELSE IF f.depth \in {1, 4, 8} THEN Pow2(f.depth)
    ELSE 0

ColorTableStatus(f) ==
    IF f.offset < SizeofBmpFile + f.dib_size THEN "EFI_INVALID_PARAMETER"
    ELSE IF f.offset > SizeofBmpFile + f.dib_size
            /\ f.offset - (SizeofBmpFile + f.dib_size) # SizeofBmpMap * map_count(f)
    THEN "EFI_INVALID_PARAMETER"
    ELSE "EFI_SUCCESS"

bmp_parse_header(f) ==
    IF f.len < SizeofBmpFile + SizeofBmpDib THEN "EFI_INVALID_PARAMETER"
    ELSE IF ~f.sig THEN "EFI_INVALID_PARAMETER"
    ELSE IF f.size # f.len THEN "EFI_INVALID_PARAMETER"
    ELSE IF f.size < f.offset THEN "EFI_INVALID_PARAMETER"
    ELSE IF f.dib_size < SizeofBmpDib THEN "EFI_UNSUPPORTED"
    ELSE IF DepthStatus(f) # "EFI_SUCCESS" THEN DepthStatus(f)
    ELSE IF f.size - f.offset < f.y * RowSize(f.depth, f.x) THEN "EFI_INVALID_PARAMETER"
    ELSE IF RowSize(f.depth, f.x) * f.y > MaxRowBytes THEN "EFI_INVALID_PARAMETER"
    ELSE ColorTableStatus(f)

MapOffset(f) == SizeofBmpFile + f.dib_size
PixmapOffset(f) == f.offset

(***************************************************************************)
(* uint32_t arithmetic.  A 32-bit word is the pair of its 16-bit halves,   *)
(* so that every operation wraps at 2^32 as the C operation does.          *)
(***************************************************************************)
W16 == 65536

U32(hi, lo) == [hi |-> hi, lo |-> lo]

Sub32(a, b) ==
    LET borrow == IF a.lo < b.lo THEN 1 ELSE 0
    IN  U32((a.hi - b.hi - borrow) % W16, (a.lo - b.lo) % W16)

Add32(a, b) ==
    LET carry == (a.lo + b.lo) \div W16
    IN  U32((a.hi + b.hi + carry) % W16, (a.lo + b.lo) % W16)

\* a * k for a byte k
Mul32(a, k) ==
    LET carry == (a.lo * k) \div W16
    IN  U32((a.hi * k + carry) % W16, (a.lo * k) % W16)

Shr8(a) == U32(a.hi \div 256, (a.lo \div 256) + (a.hi % 256) * 256)

\* a & 0xff00ff and a & 0x00ff00
MaskRB(a) == U32(a.hi % 256, a.lo % 256)
MaskG(a) == U32(0, a.lo - (a.lo % 256))

(***************************************************************************)
(* pixel_blend.  dst is a BLT pixel (Blue, Green, Red, Reserved: the       *)
(* little-endian word 0xXXRRGGBB); source is the 4 bytes of the source     *)
(* word, lowest first, so source[1] is alpha.                              *)
(***************************************************************************)
pixel_blend_norounding(dst, source) ==
    LET alpha == source[1]
        src_rb == U32(source[4], source[2])
        src_g == U32(0, source[3] * 256)
        dst_rb == U32(dst.Red, dst.Blue)
        dst_g == U32(0, dst.Green * 256)
        rb == MaskRB(Add32(Shr8(Mul32(Sub32(src_rb, dst_rb), alpha)), dst_rb))
        g == MaskG(Add32(Shr8(Mul32(Sub32(src_g, dst_g), alpha)), dst_g))
    IN  [Blue |-> rb.lo, Green |-> g.lo \div 256, Red |-> rb.hi, Reserved |-> 0]

pixel_blend(dst, source) ==
    LET alpha == source[1]
        \* src = source >> 8; src_rb = src & 0xff00ff; src_g = src & 0x00ff00
        src_rb == U32(source[4], source[2])
        src_g == U32(0, source[3] * 256)
        dst_rb == U32(dst.Red, dst.Blue)
        dst_g == U32(0, dst.Green * 256)
        rb == MaskRB(Add32(Shr8(Add32(Mul32(Sub32(src_rb, dst_rb), alpha),
                                      U32(128, 128))), dst_rb))
        g == MaskG(Add32(Shr8(Add32(Mul32(Sub32(src_g, dst_g), alpha),
                                    U32(0, 32768))), dst_g))
    IN  [Blue |-> rb.lo, Green |-> g.lo \div 256, Red |-> rb.hi, Reserved |-> 0]

(***************************************************************************)
(* bmp_to_blt.  A read of the file at offset o gives the byte there.  A    *)
(* read behind the end of the file is undefined: it gives whatever the     *)
(* memory there holds (beyond), or the machine faults.                     *)
(***************************************************************************)
Garbage == {0, 255}

Rd(o, g) == IF o >= 0 /\ o < bmp.len THEN ByteAt(o) ELSE g

\* the offsets of map[i].blue, .green, .red
MapEntryOffsets(i) == {MapOffset(bmp) + SizeofBmpMap * i + k : k \in 0..2}

\* *o = the pixel at out index o with the colors of map[i]
MapPixel(o, i, g) ==
    [blt[o] EXCEPT !.Red = Rd(MapOffset(bmp) + SizeofBmpMap * i + 2, g),
                   !.Green = Rd(MapOffset(bmp) + SizeofBmpMap * i + 1, g),
                   !.Blue = Rd(MapOffset(bmp) + SizeofBmpMap * i, g)]

\* the number of turns of: for (i = 0; i < 8 && x < dib->x; i++) { ...; x++ }
RECURSIVE Depth1Turns(_, _)
Depth1Turns(i, xx) ==
    IF i < 8 /\ xx < bmp.x THEN 1 + Depth1Turns(i + 1, xx + 1) ELSE 0

InOff == PixmapOffset(bmp) + in

\* One turn of the loop over x (lines 182-247), the in++, out++, x++ of the
\* loop header included: the pixels written, the offsets read, the palette
\* indexes used and the advance of the cursors.
Turn1(g) ==
    LET n == Depth1Turns(0, x)
        idx(i) == (Rd(InOff, g) \div Pow2(7 - i)) % 2
    IN  [px |-> [o \in out..(out + n - 1) |-> MapPixel(o, idx(o - out), g)],
         org |-> [o \in out..(out + n - 1) |-> [off |-> InOff, bit |-> o - out]],
         rd |-> {InOff} \cup UNION {MapEntryOffsets(idx(i)) : i \in 0..(n - 1)},
         lk |-> {idx(i) : i \in 0..(n - 1)},
         din |-> 1, dx |-> n]

Turn4(g) ==
    LET hi == Rd(InOff, g) \div 16
        lo == Rd(InOff, g) % 16
        two == x < bmp.x - 1
    IN  [px |-> [o \in out..(IF two THEN out + 1 ELSE out) |->
                    MapPixel(o, IF o = out THEN hi ELSE lo, g)],
         org |-> [o \in out..(IF two THEN out + 1 ELSE out) |->
                    [off |-> InOff, bit |-> IF o = out THEN 0 ELSE 4]],
         rd |-> {InOff} \cup MapEntryOffsets(hi)
                \cup (IF two THEN MapEntryOffsets(lo) ELSE {}),
         lk |-> IF two THEN {hi, lo} ELSE {hi},
         din |-> 1, dx |-> IF two THEN 2 ELSE 1]

Turn8(g) ==
    [px |-> [o \in {out} |-> MapPixel(o, Rd(InOff, g), g)],
     org |-> [o \in {out} |-> [off |-> InOff, bit |-> 0]],
     rd |-> {InOff} \cup MapEntryOffsets(Rd(InOff, g)),
     lk |-> {Rd(InOff, g)},
     din |-> 1, dx |-> 1]

Turn16(g) ==
    LET i == Rd(InOff, g) + 256 * Rd(InOff + 1, g)
    IN  [px |-> [o \in {out} |->
                    [blt[o] EXCEPT !.Red = ((i \div 1024) % 32) * 8,
                                   !.Green = ((i \div 32) % 32) * 8,
                                   !.Blue = (i % 32) * 8]],
         org |-> [o \in {out} |-> [off |-> InOff, bit |-> 0]],
         rd |-> {InOff, InOff + 1},
         lk |-> {},
         din |-> 2, dx |-> 1]

Turn24(g) ==
    [px |-> [o \in {out} |->
                [blt[o] EXCEPT !.Red = Rd(InOff + 2, g),
                               !.Green = Rd(InOff + 1, g),
                               !.Blue = Rd(InOff, g)]],
     org |-> [o \in {out} |-> [off |-> InOff, bit |-> 0]],
     rd |-> {InOff, InOff + 1, InOff + 2},
     lk |-> {},
     din |-> 3, dx |-> 1]

Turn32(g) ==
    [px |-> [o \in {out} |->
                pixel_blend(blt[o], <<Rd(InOff, g), Rd(InOff + 1, g),
                                      Rd(InOff + 2, g), Rd(InOff + 3, g)>>)],
     org |-> [o \in {out} |-> [off |-> InOff, bit |-> 0]],
     rd |-> {InOff, InOff + 1, InOff + 2, InOff + 3},
     lk |-> {},
     din |-> 4, dx |-> 1]

Turn(g) ==
    CASE bmp.depth = 1 -> Turn1(g)
      [] bmp.depth = 4 -> Turn4(g)
      [] bmp.depth = 8 -> Turn8(g)
      [] bmp.depth = 16 -> Turn16(g)
      [] bmp.depth = 24 -> Turn24(g)
      [] bmp.depth = 32 -> Turn32(g)
      \* no case of the switch matches: only the loop header acts
      [] OTHER -> [px |-> <<>>, org |-> <<>>, rd |-> {}, lk |-> {},
                   din |-> 1, dx |-> 1]

\* row_size = in - pixmap; in += ((row_size + 3) & ~3) - row_size
PadRow(i) == ((i + 3) \div 4) * 4

(***************************************************************************)
(* graphics_splash.                                                        *)
(***************************************************************************)
Call(op, cx, cy, w, h, status) ==
    [op |-> op, x |-> cx, y |-> cy, w |-> w, h |-> h, status |-> status]

\* the statuses a call into the firmware returns
Failures == {"EFI_DEVICE_ERROR", "EFI_OUT_OF_RESOURCES"}
Statuses == {"EFI_SUCCESS"} \cup Failures

Black == [Blue |-> 0, Green |-> 0, Red |-> 0, Reserved |-> 0]
AppleGray == [Blue |-> 192, Green |-> 192, Red |-> 192, Reserved |-> 0]
Blue == [Blue |-> 255, Green |-> 0, Red |-> 0, Reserved |-> 0]
\* the background argument: NULL, or a pointer to a pixel
NullBackground == [null |-> TRUE, pixel |-> Black]

\* x_pos and y_pos, lines 290-293
CenterUnclamped(resolution, size) == (resolution - size) \div 2

Center(resolution, size) ==
    IF size < resolution THEN (resolution - size) \div 2 ELSE 0

decodeVars == <<in, out, x, y, blt, origin, reads, lookups>>
inputVars == <<bmp, beyond, vendorApple, Mode>>
blendVars == <<bdst, bsrc, bout>>

\* lines 268-280
EntryUnchecked ==
    /\ pc = "entry"
    /\ background' = IF background.null
                     THEN [null |-> FALSE,
                           pixel |-> IF vendorApple THEN AppleGray ELSE Black]
                     ELSE background
    /\ pc' = "locate"
    /\ UNCHANGED <<inputVars, err, x_pos, y_pos, decodeVars, surface, calls, blendVars>>

Entry ==
    /\ pc = "entry"
    /\ IF bmp.len = 0
       THEN /\ pc' = "done"
            /\ err' = "EFI_SUCCESS"
            /\ UNCHANGED background
       ELSE /\ background' = IF background.null
                             THEN [null |-> FALSE,
                                   pixel |-> IF vendorApple THEN AppleGray ELSE Black]
                             ELSE background
            /\ pc' = "locate"
            /\ UNCHANGED err
    /\ UNCHANGED <<inputVars, x_pos, y_pos, decodeVars, surface, calls, blendVars>>

\* lines 282-284
LocateProtocol ==
    /\ pc = "locate"
    /\ \E st \in Statuses :
          /\ calls' = Append(calls, Call("LocateProtocol", 0, 0, 0, 0, st))
          /\ IF st = "EFI_SUCCESS"
             THEN pc' = "parse" /\ UNCHANGED err
             ELSE pc' = "done" /\ err' = st
    /\ UNCHANGED <<inputVars, background, x_pos, y_pos, decodeVars, surface, blendVars>>

\* lines 286-293
ParseHeaderUnchecked ==
    /\ pc = "parse"
    /\ pc' = "fill"
    /\ x_pos' = 0
    /\ y_pos' = 0
    /\ UNCHANGED <<inputVars, background, err, decodeVars, surface, calls, blendVars>>

ParseHeader ==
    /\ pc = "parse"
    /\ IF bmp_parse_header(bmp) # "EFI_SUCCESS"
       THEN /\ pc' = "done"
            /\ err' = bmp_parse_header(bmp)
            /\ UNCHANGED <<x_pos, y_pos>>
       ELSE /\ pc' = "fill"
            /\ x_pos' = Center(Mode.HorizontalResolution, bmp.x)
            /\ y_pos' = Center(Mode.VerticalResolution, bmp.y)
            /\ UNCHANGED err
    /\ UNCHANGED <<inputVars, background, decodeVars, surface, calls, blendVars>>

\* lines 295-301
FillUnchecked ==
    /\ pc = "fill"
    /\ \E st \in Statuses :
          /\ calls' = Append(calls, Call("EfiBltVideoFill", 0, 0,
                                         Mode.HorizontalResolution,
                                         Mode.VerticalResolution, st))
          /\ surface' = IF st = "EFI_SUCCESS" THEN "filled" ELSE surface
          /\ pc' = "capture"
    /\ UNCHANGED <<inputVars, background, err, x_pos, y_pos, decodeVars, blendVars>>

Fill ==
    /\ pc = "fill"
    /\ \E st \in Statuses :
          /\ calls' = Append(calls, Call("EfiBltVideoFill", 0, 0,
                                         Mode.HorizontalResolution,
                                         Mode.VerticalResolution, st))
          /\ surface' = IF st = "EFI_SUCCESS" THEN "filled" ELSE surface
          /\ IF st = "EFI_SUCCESS"
             THEN pc' = "capture" /\ UNCHANGED err
             ELSE pc' = "done" /\ err' = st
    /\ UNCHANGED <<inputVars, background, x_pos, y_pos, decodeVars, blendVars>>

\* lines 303-311: the buffer is allocated, then filled from the surface,
\* which shows the background color
Capture ==
    /\ pc = "capture"
    /\ \E st \in Statuses :
          /\ calls' = Append(calls, Call("EfiBltVideoToBltBuffer", x_pos, y_pos,
                                         bmp.x, bmp.y, st))
          /\ IF st = "EFI_SUCCESS"
             THEN /\ pc' = "row"
                  /\ blt' = [o \in 0..(bmp.x * bmp.y - 1) |-> background.pixel]
                  /\ UNCHANGED err
             ELSE /\ pc' = "done"
                  /\ err' = st
                  /\ UNCHANGED blt
    /\ UNCHANGED <<inputVars, background, x_pos, y_pos, in, out, x, y, origin,
                   reads, lookups, surface, blendVars>>

\* bmp_to_blt, lines 177-181: the head of the loop over y
RowBegin ==
    /\ pc = "row"
    /\ y < bmp.y
    /\ out' = (bmp.y - y - 1) * bmp.x
    /\ x' = 0
    /\ pc' = "pixel"
    /\ UNCHANGED <<inputVars, background, err, x_pos, y_pos, in, y, blt, origin,
                   reads, lookups, surface, calls, blendVars>>

\* bmp_to_blt, lines 182-247: one turn of the loop over x
PixelTurn ==
    /\ pc = "pixel"
    /\ x < bmp.x
    /\ LET t == Turn(beyond)
           wild == \E o \in t.rd : o < 0 \/ o >= bmp.len
       IN     /\ reads' = reads \cup t.rd
              /\ lookups' = lookups \cup t.lk
              /\ \/ /\ blt' = [o \in DOMAIN blt |->
                                  IF o \in DOMAIN t.px THEN t.px[o] ELSE blt[o]]
                    /\ origin' = [o \in DOMAIN origin \cup DOMAIN t.org |->
                                  IF o \in DOMAIN t.org THEN t.org[o] ELSE origin[o]]
                    /\ in' = in + t.din
                    /\ out' = out + t.dx
                    /\ x' = x + t.dx
                    /\ UNCHANGED pc
                 \/ /\ wild
                    /\ pc' = "fault"
                    /\ UNCHANGED <<blt, origin, in, out, x>>
    /\ UNCHANGED <<inputVars, background, err, x_pos, y_pos, y, surface, calls,
                   blendVars>>

\* bmp_to_blt, lines 249-252: the row padding and the y++ of the loop header
RowEndUnpadded ==
    /\ pc = "pixel"
    /\ x >= bmp.x
    /\ in' = in
    /\ y' = y + 1
    /\ pc' = "row"
    /\ UNCHANGED <<inputVars, background, err, x_pos, y_pos, out, x, blt, origin,
                   reads, lookups, surface, calls, blendVars>>

RowEnd ==
    /\ pc = "pixel"
    /\ x >= bmp.x
    /\ in' = PadRow(in)
    /\ y' = y + 1
    /\ pc' = "row"
    /\ UNCHANGED <<inputVars, background, err, x_pos, y_pos, out, x, blt, origin,
                   reads, lookups, surface, calls, blendVars>>

\* bmp_to_blt, line 254, and lines 313-315
ConvertDone ==
    /\ pc = "row"
    /\ y >= bmp.y
    /\ pc' = "mode"
    /\ UNCHANGED <<inputVars, background, err, x_pos, y_pos, decodeVars, surface,
                   calls, blendVars>>

\* lines 317-319
GraphicsModeUnchecked ==
    /\ pc = "mode"
    /\ \E st \in Statuses :
          /\ calls' = Append(calls, Call("graphics_mode", 0, 0, 0, 0, st))
          /\ pc' = "write"
    /\ UNCHANGED <<inputVars, background, err, x_pos, y_pos, decodeVars, surface,
                   blendVars>>

GraphicsMode ==
    /\ pc = "mode"
    /\ \E st \in Statuses :
          /\ calls' = Append(calls, Call("graphics_mode", 0, 0, 0, 0, st))
          /\ IF st = "EFI_SUCCESS"
             THEN pc' = "write" /\ UNCHANGED err
             ELSE pc' = "done" /\ err' = st
    /\ UNCHANGED <<inputVars, background, x_pos, y_pos, decodeVars, surface,
                   blendVars>>

\* lines 321-324
WriteBack ==
    /\ pc = "write"
    /\ \E st \in Statuses :
          /\ calls' = Append(calls, Call("EfiBltBufferToVideo", x_pos, y_pos,
                                         bmp.x, bmp.y, st))
          /\ surface' = IF st = "EFI_SUCCESS" THEN "splash" ELSE surface
          /\ err' = st
          /\ pc' = "done"
    /\ UNCHANGED <<inputVars, background, x_pos, y_pos, decodeVars, blendVars>>

(***************************************************************************)
(* The inputs.                                                             *)
(***************************************************************************)
File(len, sig, size, offset, dib_size, w, h, depth, compression, colors_used, c) ==
    [len |-> len, sig |-> sig, size |-> size, offset |-> offset,
     dib_size |-> dib_size, x |-> w, y |-> h, depth |-> depth,
     compression |-> compression, colors_used |-> colors_used,
     seed |-> c[1], stride |-> c[2]]

Depths == {1, 2, 4, 8, 16, 24, 32}
Compressions == {0, 1, 3}
DibSizes == {36, 40, 44}
ColorCounts == {0, 2, 16}
\* offset - (sizeof(struct bmp_file) + dib->size)
Gaps == {-4, 0, 8, 63, 64, 1024}
\* the bytes behind offset, relative to the bytes of the rows
Slacks == {-1, 0}
\* <<seed, stride>> of the content
Contents == {<<1, 0>>, <<17, 0>>, <<255, 0>>, <<3, 37>>}
Resolutions == {1, 4, 10}

\* a file whose header fields vary: offset is gap behind the DIB header and
\* the file ends slack bytes behind the last row
HeaderFile(d, cp, ds, cu, gap, slack, w, h, c) ==
    File((SizeofBmpFile + ds + gap) + Max(0, RowSize(d, w) * h + slack), TRUE,
         (SizeofBmpFile + ds + gap) + Max(0, RowSize(d, w) * h + slack),
         SizeofBmpFile + ds + gap, ds, w, h, d, cp, cu, c)

\* a well-formed 24- or 32-bit file of the given dimensions
PlainFile(d, w, h, c) ==
    File(54 + RowSize(d, w) * h, TRUE, 54 + RowSize(d, w) * h, 54, 40,
         w, h, d, 0, 0, c)

\* files that are empty, too short, or whose file header is wrong
BrokenFiles ==
    LET f == PlainFile(24, 2, 2, <<3, 37>>)
    IN  {[f EXCEPT !.len = 0], [f EXCEPT !.len = 10], [f EXCEPT !.len = 53],
         [f EXCEPT !.sig = FALSE], [f EXCEPT !.size = f.len - 1],
         [f EXCEPT !.offset = f.len + 1]}

InitRun ==
    /\ pc = "entry"
    /\ err = "EFI_SUCCESS"
    /\ x_pos = 0
    /\ y_pos = 0
    /\ in = 0
    /\ out = 0
    /\ x = 0
    /\ y = 0
    /\ blt = <<>>
    /\ origin = <<>>
    /\ reads = {}
    /\ lookups = {}
    /\ surface = "initial"
    /\ calls = <<>>

InitBlendIdle ==
    /\ bdst = Black
    /\ bsrc = <<0, 0, 0, 0>>
    /\ bout = Black

Init ==
    /\ InitRun
    /\ InitBlendIdle
    /\ \/ /\ \E d \in Depths, cp \in Compressions, ds \in DibSizes,
                cu \in ColorCounts, gap \in Gaps, slack \in Slacks,
                w \in 0..MaxWidth, h \in 0..MaxHeight :
                bmp = HeaderFile(d, cp, ds, cu, gap, slack, w, h, <<3, 37>>)
          /\ beyond = 0
          /\ background = NullBackground
          /\ vendorApple = FALSE
          /\ Mode = [HorizontalResolution |-> 4, VerticalResolution |-> 4]
       \/ /\ \E d \in Depths \ {2}, cu \in ColorCounts, gap \in Gaps,
                w \in 0..MaxWidth, h \in 0..MaxHeight, c \in Contents :
                bmp = HeaderFile(d, 0, SizeofBmpDib, cu, gap, 0, w, h, c)
          /\ beyond \in Garbage
          /\ background = NullBackground
          /\ vendorApple = FALSE
          /\ Mode = [HorizontalResolution |-> 4, VerticalResolution |-> 4]
       \/ /\ beyond = 0
          /\ bmp \in BrokenFiles
                     \cup {PlainFile(d, w, h, <<3, 37>>) :
                             d \in {24, 32}, w \in 0..MaxWidth, h \in 0..MaxHeight}
          /\ background \in {NullBackground, [null |-> FALSE, pixel |-> Blue]}
          /\ vendorApple \in BOOLEAN
          /\ Mode \in [HorizontalResolution : Resolutions,
                       VerticalResolution : Resolutions]

Next ==
    \/ Entry
    \/ LocateProtocol
    \/ ParseHeader
    \/ Fill
    \/ Capture
    \/ RowBegin
    \/ PixelTurn
    \/ RowEnd
    \/ ConvertDone
    \/ GraphicsMode
    \/ WriteBack

Spec == Init /\ [][Next]_vars

(***************************************************************************)
(* pixel_blend on its own: every destination pixel and source word over    *)
(* the channel values below.                                               *)
(***************************************************************************)
ChannelValues == {0, 1, 127, 128, 255}

Blend ==
    /\ pc = "blend"
    /\ bout' = pixel_blend(bdst, bsrc)
    /\ pc' = "blended"
    /\ UNCHANGED <<inputVars, background, err, x_pos, y_pos, decodeVars, surface,
                   calls, bdst, bsrc>>

InitBlend ==
    /\ pc = "blend"
    /\ err = "EFI_SUCCESS"
    /\ x_pos = 0
    /\ y_pos = 0
    /\ in = 0
    /\ out = 0
    /\ x = 0
    /\ y = 0
    /\ blt = <<>>
    /\ origin = <<>>
    /\ reads = {}
    /\ lookups = {}
    /\ surface = "initial"
    /\ calls = <<>>
    /\ bmp = PlainFile(32, 1, 1, <<3, 37>>)
    /\ beyond = 0
    /\ background = NullBackground
    /\ vendorApple = FALSE
    /\ Mode = [HorizontalResolution |-> 4, VerticalResolution |-> 4]
    /\ bdst \in [Blue : ChannelValues, Green : ChannelValues, Red : ChannelValues,
                 Reserved : {0, 255}]
    /\ bsrc \in [1..4 -> ChannelValues]
    /\ bout = Black

NextBlend == Blend

SpecBlend == InitBlend /\ [][NextBlend]_vars

(***************************************************************************)
(* Properties.                                                             *)
(***************************************************************************)
CallsOf(op) == {i \in 1..Len(calls) : calls[i].op = op}
Failed(i) == calls[i].status # "EFI_SUCCESS"
DisplayOps == {"EfiBltVideoFill", "EfiBltVideoToBltBuffer", "EfiBltBufferToVideo",
               "graphics_mode"}

\* the Header Validator has run and accepted the input
Accepted == pc \in {"fill", "capture", "row", "pixel", "mode", "write", "fault"}
            \/ (pc = "done" /\ Len(calls) >= 2)
\* render has returned a validation failure
ValidationFailed ==
    /\ pc = "done"
    /\ bmp.len # 0
    /\ Len(calls) = 1
    /\ calls[1].status = "EFI_SUCCESS"

\* C1: whenever the Header Validator has accepted the input, every file
\* offset the Pixel Converter reads (pixel rows and palette entries) lies in
\* [0, len).
C1_ReadsInBounds == \A o \in reads : o >= 0 /\ o < bmp.len

\* the number of palette entries: none when no color table is present
PaletteLength ==
    IF bmp.offset = SizeofBmpFile + bmp.dib_size THEN 0
    ELSE IF bmp.colors_used # 0 THEN bmp.colors_used
    ELSE Pow2(bmp.depth)

\* C2: no palette entry at or beyond the palette length is ever read, and a
\* run that met a pixel index at or beyond the palette length does not go on:
\* it ends with an error.
C2_BadIndexFails ==
    /\ \A i \in lookups : i < PaletteLength
    /\ (\E i \in lookups : i >= PaletteLength)
          => (pc = "done" /\ err # "EFI_SUCCESS")

\* the blend formula of one channel
BlendChannel(d, s, alpha) == (d + ((s - d) * alpha + 128) \div 256) % 256

\* C3: each output channel of blend is (dest + floor(((src - dest) * alpha +
\* 0x80) / 256)) mod 256 of its own source and destination values and alpha.
C3_BlendExact ==
    pc = "blended" =>
        /\ bout.Red = BlendChannel(bdst.Red, bsrc[4], bsrc[1])
        /\ bout.Green = BlendChannel(bdst.Green, bsrc[3], bsrc[1])
        /\ bout.Blue = BlendChannel(bdst.Blue, bsrc[2], bsrc[1])

\* source (R=255, G=0, B=0, A=128) over destination (R=0, G=0, B=255) has been
\* blended, to (128, 0, 128)
C3_Witness ==
    /\ pc = "blended"
    /\ bsrc = <<128, 0, 0, 255>>
    /\ bdst.Red = 0 /\ bdst.Green = 0 /\ bdst.Blue = 255
    /\ bout.Red = 128 /\ bout.Green = 0 /\ bout.Blue = 128

\* C4: whenever render returns a validation failure, the fill has already
\* been performed and the surface shows the background color.
C4_FillBeforeValidate ==
    ValidationFailed => (CallsOf("EfiBltVideoFill") # {} /\ surface = "filled")

\* C4 as amended: the Header Validator runs before the fill. Whenever render
\* returns a validation failure no fill has been made and the surface is as it
\* was; a fill is made only for an input the validator accepted.
C4_ValidateBeforeFill ==
    /\ ValidationFailed => (CallsOf("EfiBltVideoFill") = {} /\ surface = "initial")
    /\ CallsOf("EfiBltVideoFill") # {} => bmp_parse_header(bmp) = "EFI_SUCCESS"
    /\ bmp_parse_header(bmp) # "EFI_SUCCESS" => surface = "initial"

\* render has returned the validator's failure
C4_Witness ==
    /\ ValidationFailed
    /\ err = bmp_parse_header(bmp)
    /\ err # "EFI_SUCCESS"
    /\ surface = "initial"

\* C5: on every run the write-back call precedes the mode-switch call.
C5_WriteBeforeMode ==
    \A i \in CallsOf("graphics_mode") :
        \E j \in CallsOf("EfiBltBufferToVideo") : j < i

\* C5 as amended: the mode switch precedes the write-back. Every write-back
\* call follows a successful mode-switch call, and when the mode switch fails
\* no write-back is made and the splash is not on the surface.
C5_ModeBeforeWrite ==
    /\ \A i \in CallsOf("EfiBltBufferToVideo") :
          \E j \in CallsOf("graphics_mode") : j < i /\ ~Failed(j)
    /\ (\E j \in CallsOf("graphics_mode") : Failed(j))
          => (CallsOf("EfiBltBufferToVideo") = {} /\ surface # "splash")
    /\ surface = "splash" => \E j \in CallsOf("graphics_mode") : ~Failed(j)

\* the splash has been written after the mode switch
C5_Witness ==
    /\ pc = "done"
    /\ surface = "splash"
    /\ Len(calls) = 5
    /\ calls[4].op = "graphics_mode"
    /\ calls[5].op = "EfiBltBufferToVideo"

\* C6: a failing fill, capture, write-back or mode switch is the last call
\* made, render has returned with its status, and no call is made twice.
C6_FailurePropagates ==
    /\ \A i \in 1..Len(calls) :
          (calls[i].op \in DisplayOps /\ Failed(i)) =>
              /\ i = Len(calls)
              /\ pc = "done"
              /\ err = calls[i].status
    /\ \A i, j \in 1..Len(calls) : calls[i].op = calls[j].op => i = j

\* the capture has failed and render has returned its status
C6_Witness ==
    /\ pc = "done"
    /\ Len(calls) = 3
    /\ calls[3].op = "EfiBltVideoToBltBuffer"
    /\ calls[3].status = "EFI_OUT_OF_RESOURCES"
    /\ err = "EFI_OUT_OF_RESOURCES"

\* C7: for every input the Header Validator accepts with depth 1, 4 or 8 the
\* bytes between the end of the DIB header and the pixel-data offset are
\* exactly 4 x (used-color count if non-zero, else 2^depth).
C7_IndexedHasPalette ==
    (Accepted /\ bmp.depth \in {1, 4, 8}) =>
        bmp.offset - (SizeofBmpFile + bmp.dib_size)
            = 4 * (IF bmp.colors_used # 0 THEN bmp.colors_used ELSE Pow2(bmp.depth))

\* C8: the captured rectangle and the written rectangle both start at
\* (max(0, (surfaceWidth - imageWidth) / 2), max(0, (surfaceHeight -
\* imageHeight) / 2)); the offsets are never negative and are 0 on an axis
\* where the image is at least as large as the surface.
C8_Centered ==
    \A i \in CallsOf("EfiBltVideoToBltBuffer") \cup CallsOf("EfiBltBufferToVideo") :
        /\ calls[i].x = Max(0, (Mode.HorizontalResolution - bmp.x) \div 2)
        /\ calls[i].y = Max(0, (Mode.VerticalResolution - bmp.y) \div 2)
        /\ calls[i].x >= 0 /\ calls[i].y >= 0
        /\ bmp.x >= Mode.HorizontalResolution => calls[i].x = 0
        /\ bmp.y >= Mode.VerticalResolution => calls[i].y = 0
        /\ calls[i].w = bmp.x /\ calls[i].h = bmp.y

\* a 2x2 image has been captured from and written to (4, 4) of a 10x10 surface
C8_Witness ==
    /\ pc = "done"
    /\ bmp.x = 2 /\ bmp.y = 2
    /\ Mode.HorizontalResolution = 10 /\ Mode.VerticalResolution = 10
    /\ Len(calls) = 5
    /\ calls[3].op = "EfiBltVideoToBltBuffer" /\ calls[3].x = 4 /\ calls[3].y = 4
    /\ calls[5].op = "EfiBltBufferToVideo" /\ calls[5].x = 4 /\ calls[5].y = 4

\* an image wider and higher than the surface has been written to (0, 0)
C8_WitnessOversize ==
    /\ pc = "done"
    /\ bmp.x > Mode.HorizontalResolution /\ bmp.y > Mode.VerticalResolution
    /\ Len(calls) = 5
    /\ calls[5].x = 0 /\ calls[5].y = 0

\* C9: render with a zero-length input returns success and makes no call: no
\* fill, no capture, no write-back, no mode switch; the surface is unchanged.
C9_EmptyNoEffect ==
    bmp.len = 0 =>
        /\ calls = <<>>
        /\ surface = "initial"
        /\ pc \in {"entry", "done"}
        /\ pc = "done" => err = "EFI_SUCCESS"

\* render has returned for the empty input
C9_Witness == bmp.len = 0 /\ pc = "done" /\ err = "EFI_SUCCESS"

\* where the claim says output pixel o is decoded from
SourceOffset(o) ==
    bmp.offset + (bmp.y - 1 - (o \div bmp.x)) * RowSize(bmp.depth, bmp.x)
               + (((o % bmp.x) * bmp.depth) \div 8)
SourceBit(o) == ((o % bmp.x) * bmp.depth) % 8

\* C10: output pixel x of output row y is decoded from bit offset x * depth
\* of the source row at byte offset (height - 1 - y) * rowSize; at the start
\* of each row the read cursor has advanced by the padded stride per row; the
\* converter fills every output pixel; a 24-bit pixel is the stored bytes.
C10_RowsAndStride ==
    /\ pc = "row" => in = y * RowSize(bmp.depth, bmp.x)
    /\ \A o \in DOMAIN origin :
          /\ origin[o].off = SourceOffset(o)
          /\ origin[o].bit = SourceBit(o)
          /\ bmp.depth = 24 =>
                /\ blt[o].Red = ByteAt(SourceOffset(o) + 2)
                /\ blt[o].Green = ByteAt(SourceOffset(o) + 1)
                /\ blt[o].Blue = ByteAt(SourceOffset(o))
    /\ pc = "mode" => DOMAIN origin = 0..(bmp.x * bmp.y - 1)

\* a 1-bit image whose width is not a multiple of 8 has been converted
C10_Witness ==
    /\ pc = "mode"
    /\ bmp.depth = 1
    /\ bmp.x = 9
    /\ bmp.y = 2
    /\ DOMAIN origin = 0..17

\* a 4-bit image of odd width and a 24-bit image have been converted
C10_WitnessOdd4 == pc = "mode" /\ bmp.depth = 4 /\ bmp.x = 3 /\ bmp.y = 2
C10_Witness24 == pc = "mode" /\ bmp.depth = 24 /\ bmp.x = 3 /\ bmp.y = 2

====
